---- MODULE Spec2Model ----
(***************************************************************************)
(* Intcode decoder (src/aoc2019rs/src/intcode/instruction.rs), the machine *)
(* that drives it, and the day-2 noun/verb search                          *)
(* (src/aoc2019rs/src/solutions/day2.rs).                                  *)
(*                                                                         *)
(* Numbers.  A Program Word is an i64, modelled by a TLA+ integer.  A      *)
(* usize is modelled by a record [tag |-> "usize", hi, lo] that denotes    *)
(* the number hi * 2^64 + lo: the cast `v as usize` of a non-negative word *)
(* v is (hi = 0, lo = v) and of a negative word v it is (hi = 1, lo = v),  *)
(* that is 2^64 + v, which is what the cast yields on a 64-bit target.     *)
(* The representation is canonical, so record equality is equality of the  *)
(* numbers denoted.                                                        *)
(*                                                                         *)
(* A panic is modelled by a value [tag |-> "Panic", msg |-> ...] that      *)
(* takes the place of the value the panicking expression would have had.   *)
(***************************************************************************)
EXTENDS Integers, Sequences

VARIABLES
    pc,                      \* position of the driver of the specification
    opcode_and_param_modes,  \* decoder input: the instruction word
    params,                  \* decoder input: the parameter slice
    result,                  \* decoder output: an instruction or a panic
    machine,                 \* the machine's state
    status,                  \* what the last step() or run() returned
    lastOp,                  \* the last operation called on the machine
    lastInstr,               \* the instruction the last step() decoded
    prev,                    \* machine and status before the last operation
    pushes,                  \* number of push_input calls so far
    program,                 \* the day-2 program read from the input
    noun,                    \* the outer loop's variable
    verb,                    \* the inner loop's variable
    returned,                \* what the day-2 run() returned
    trials                   \* number of run_test calls so far

decodeVars == <<opcode_and_param_modes, params, result>>

machineVars == <<machine, status, lastOp, lastInstr, prev, pushes>>

searchVars == <<program, noun, verb, returned, trials>>

vars == <<pc, decodeVars, machineVars, searchVars>>

----------------------------------------------------------------------------
(* Bounds of the model                                                     *)

\* instruction words 0..MaxWord are decoded
MaxWord == 99999
\* parameter slices of length 0..MaxParams
MaxParams == 3

\* the parameter words tried: a negative and a non-negative one
ParamWords == {-1, 4}

----------------------------------------------------------------------------
(* Values                                                                  *)

Panic(msg) == [tag |-> "Panic", msg |-> msg]

IsPanic(v) == v.tag = "Panic"

\* `v as usize`, for v an i64
AsUsize(v) == [tag |-> "usize", hi |-> (IF v < 0 THEN 1 ELSE 0), lo |-> v]

\* params[k] (k 0-indexed): a slice index out of range panics
Index(slice, k) ==
    IF k + 1 <= Len(slice) THEN [tag |-> "i64", val |-> slice[k + 1]]
    ELSE Panic("index out of bounds")

Position(w) == [tag |-> "Position", pos |-> w]

Immediate(v) == [tag |-> "Immediate", val |-> v]

Relative(v) == [tag |-> "Relative", val |-> v]

----------------------------------------------------------------------------
(* conversion::i64_into_digits: the decimal digits of a non-negative       *)
(* integer, most significant first (the decoder reverses them)             *)

RECURSIVE I64IntoDigits(_)
I64IntoDigits(n) ==
    IF n < 10 THEN <<n>> ELSE Append(I64IntoDigits(n \div 10), n % 10)

RECURSIVE Reverse(_)
Reverse(s) ==
    IF s = <<>> THEN <<>> ELSE Append(Reverse(Tail(s)), Head(s))

----------------------------------------------------------------------------
(* IntcodeInstruction::new                                                 *)

\* digits, least significant first
DigitsOf(m) == Reverse(I64IntoDigits(m))

\* digits.get(i).unwrap_or(&0), i 0-indexed
GetOrZero(digits, i) == IF i + 1 <= Len(digits) THEN digits[i + 1] ELSE 0

Opcode_NoTens(digits) == digits[1]

Opcode_Unmasked(digits) ==
    digits[1] + 10 * GetOrZero(digits, 1) + 100 * GetOrZero(digits, 2)

\* let opcode = digits[0] + 10 * digits.get(1).unwrap_or(&0)
Opcode(digits) == digits[1] + 10 * GetOrZero(digits, 1)

InvalidParameterMode(mode) == Panic("Invalid parameter mode")

\* the closure get_value: the mode digit is read first, the parameter after
GetValue(digits, slice, param_position) ==
    LET mode == GetOrZero(digits, param_position + 2)
        p == Index(slice, param_position)
    IN  CASE mode = 0 -> IF IsPanic(p) THEN p ELSE Position(AsUsize(p.val))
          [] mode = 1 -> IF IsPanic(p) THEN p ELSE Immediate(p.val)
          [] mode = 2 -> IF IsPanic(p) THEN p ELSE Relative(p.val)
          [] OTHER -> InvalidParameterMode(mode)

WriteTarget_NextParam(slice, k) ==
    LET p == Index(slice, k + 1) IN IF IsPanic(p) THEN p ELSE AsUsize(p.val)

\* position: params[k] as usize
WriteTarget(slice, k) ==
    LET p == Index(slice, k) IN IF IsPanic(p) THEN p ELSE AsUsize(p.val)

\* a struct literal evaluates its fields in order: the first panic wins
ThreeOperand(name, x, y, position) ==
    IF IsPanic(x) THEN x
    ELSE IF IsPanic(y) THEN y
    ELSE IF IsPanic(position) THEN position
    ELSE [tag |-> name, x |-> x, y |-> y, position |-> position]

Jump(name, test_position, jump_position) ==
    IF IsPanic(test_position) THEN test_position
    ELSE IF IsPanic(jump_position) THEN jump_position
    ELSE [tag |-> name, test_position |-> test_position,
          jump_position |-> jump_position]

InvalidInstruction_Ignored(opcode) == [tag |-> "Halt"]

InvalidInstruction(opcode) == Panic("Invalid instruction")

\* match opcode { ... }
Dispatch(opcode, digits, slice) ==
    CASE opcode = 1 ->
           ThreeOperand("Add", GetValue(digits, slice, 0),
                        GetValue(digits, slice, 1), WriteTarget(slice, 2))
      [] opcode = 2 ->
           ThreeOperand("Multiply", GetValue(digits, slice, 0),
                        GetValue(digits, slice, 1), WriteTarget(slice, 2))
      [] opcode = 3 ->
           LET position == WriteTarget(slice, 0)
           IN  IF IsPanic(position) THEN position
               ELSE [tag |-> "Input", position |-> position]
      [] opcode = 4 ->
           LET value == GetValue(digits, slice, 0)
           IN  IF IsPanic(value) THEN value
               ELSE [tag |-> "Output", value |-> value]
      [] opcode = 5 ->
           Jump("JumpIfTrue", GetValue(digits, slice, 0),
                GetValue(digits, slice, 1))
      [] opcode = 6 ->
           Jump("JumpIfFalse", GetValue(digits, slice, 0),
                GetValue(digits, slice, 1))
      [] opcode = 7 ->
           ThreeOperand("IsLessThan", GetValue(digits, slice, 0),
                        GetValue(digits, slice, 1), WriteTarget(slice, 2))
      [] opcode = 8 ->
           ThreeOperand("IsEquals", GetValue(digits, slice, 0),
                        GetValue(digits, slice, 1), WriteTarget(slice, 2))
      [] opcode = 9 ->
           LET offset == GetValue(digits, slice, 0)
           IN  IF IsPanic(offset) THEN offset
               ELSE [tag |-> "SetRelativeBase", offset |-> offset]
      [] opcode = 99 -> [tag |-> "Halt"]
      [] OTHER -> InvalidInstruction(opcode)

IntcodeInstructionNew(m, slice) ==
    LET digits == DigitsOf(m) IN Dispatch(Opcode(digits), digits, slice)

----------------------------------------------------------------------------
(* The decoder applied to every word and parameter slice of the bounds     *)

\* a machine no operation has been called on: the other specifications' part
IdleMachine ==
    /\ machine = [memory |-> <<>>, instruction_pointer |-> 0,
                  relative_base |-> 0, input_queue |-> <<>>,
                  output_log |-> <<>>, halted |-> FALSE]
    /\ status = "None"
    /\ lastOp = "none"
    /\ lastInstr = [tag |-> "None"]
    /\ prev = [machine |-> machine, status |-> status]
    /\ pushes = 0

\* a search that was not started: the other specifications' part
IdleSearch ==
    /\ program = <<>>
    /\ noun = 0
    /\ verb = 0
    /\ returned = [tag |-> "None"]
    /\ trials = 0

ParamSlices == UNION {[1..n -> ParamWords] : n \in 0..MaxParams}

NoResult == [tag |-> "None"]

InitDecode ==
    /\ pc = "decode"
    /\ opcode_and_param_modes \in 0..MaxWord
    /\ params \in ParamSlices
    /\ result = NoResult
    /\ IdleMachine
    /\ IdleSearch

Decode ==
    /\ pc = "decode"
    /\ result' = IntcodeInstructionNew(opcode_and_param_modes, params)
    /\ pc' = "decoded"
    /\ UNCHANGED <<opcode_and_param_modes, params, machineVars, searchVars>>

NextDecode == Decode

SpecDecode == InitDecode /\ [][NextDecode]_vars

----------------------------------------------------------------------------
(* The decoder's contract, stated from the instruction word's arithmetic   *)
(* (not from the digit vector the code computes)                           *)

RECURSIVE Pow10(_)
Pow10(i) == IF i = 0 THEN 1 ELSE 10 * Pow10(i - 1)

\* decimal digit i of m, digit 0 the lowest
Digit(m, i) == (m \div Pow10(i)) % 10

TableOpcodes == {1, 2, 3, 4, 5, 6, 7, 8, 9, 99}

VariantOf(op) ==
    CASE op = 1 -> "Add" [] op = 2 -> "Multiply" [] op = 3 -> "Input"
      [] op = 4 -> "Output" [] op = 5 -> "JumpIfTrue"
      [] op = 6 -> "JumpIfFalse" [] op = 7 -> "IsLessThan"
      [] op = 8 -> "IsEquals" [] op = 9 -> "SetRelativeBase"
      [] op = 99 -> "Halt"

\* the parameter positions an opcode reads as operands
ReadParams(op) ==
    IF op \in {1, 2, 5, 6, 7, 8} THEN {0, 1}
    ELSE IF op \in {4, 9} THEN {0} ELSE {}

\* the parameter positions an opcode writes through
WriteParams(op) ==
    IF op \in {1, 2, 7, 8} THEN {2} ELSE IF op = 3 THEN {0} ELSE {}

ConsumedParams(op) == ReadParams(op) \cup WriteParams(op)

ModeName(d) ==
    CASE d = 0 -> "Position" [] d = 1 -> "Immediate" [] d = 2 -> "Relative"
      [] OTHER -> "Invalid"

\* read operand k of a decoded instruction
OperandOf(instr, k) ==
    CASE instr.tag \in {"Add", "Multiply", "IsLessThan", "IsEquals"} ->
           IF k = 0 THEN instr.x ELSE instr.y
      [] instr.tag \in {"JumpIfTrue", "JumpIfFalse"} ->
           IF k = 0 THEN instr.test_position ELSE instr.jump_position
      [] instr.tag = "Output" -> instr.value
      [] instr.tag = "SetRelativeBase" -> instr.offset

\* the usize w is the number n
UsizeIs(w, n) == w.hi = 0 /\ w.lo = n

\* the operand carries the number n
Carries(operand, n) ==
    IF operand.tag = "Position" THEN UsizeIs(operand.pos, n)
    ELSE operand.val = n

Decoded == pc = "decoded"

OpOfWord == opcode_and_param_modes % 100

\* the word and the slice are well formed for the read operands
ReadableCall ==
    /\ OpOfWord \in TableOpcodes
    /\ \A k \in ReadParams(OpOfWord) : Digit(opcode_and_param_modes, k + 2) \in 0..2
    /\ \A k \in ConsumedParams(OpOfWord) : k + 1 <= Len(params)

\* C1 (as claimed): the variant comes from m mod 100, read operand k has the
\* mode named by digit k + 2 of m (0 when m has no such digit) and carries
\* params[k].
C1_VariantModesAndOperands ==
    (Decoded /\ ReadableCall) =>
        /\ ~IsPanic(result)
        /\ result.tag = VariantOf(OpOfWord)
        /\ \A k \in ReadParams(OpOfWord) :
              /\ OperandOf(result, k).tag =
                     ModeName(Digit(opcode_and_param_modes, k + 2))
              /\ Carries(OperandOf(result, k), params[k + 1])

\* C1 without the sign of a Position operand: the variant and the modes are
\* as claimed, and the operand is params[k], cast to usize in Position mode.
DecodeVariantAndModes ==
    (Decoded /\ ReadableCall) =>
        /\ ~IsPanic(result)
        /\ result.tag = VariantOf(OpOfWord)
        /\ \A k \in ReadParams(OpOfWord) :
              LET operand == OperandOf(result, k)
              IN  /\ operand.tag = ModeName(Digit(opcode_and_param_modes, k + 2))
                  /\ IF operand.tag = "Position"
                     THEN operand.pos = AsUsize(params[k + 1])
                     ELSE operand.val = params[k + 1]

\* C3 (as claimed): a write target whose mode digit is 1 (Immediate) makes
\* the decoder end in a fatal error.
C3_ImmediateWriteTargetIsFatal ==
    (Decoded /\ \E k \in WriteParams(OpOfWord) :
                    Digit(opcode_and_param_modes, k + 2) = 1)
        => IsPanic(result)

\* C4 (as claimed): a mode digit in 3..9 on any parameter the opcode
\* consumes, read or written, makes the decoder end in a fatal error.
C4_InvalidModeDigitIsFatal ==
    (Decoded /\ OpOfWord \in TableOpcodes
             /\ \E k \in ConsumedParams(OpOfWord) :
                    Digit(opcode_and_param_modes, k + 2) \in 3..9)
        => IsPanic(result)

\* C4 for the read operands alone: a mode digit in 3..9 on a parameter the
\* opcode reads makes the decoder end in a fatal error.
InvalidReadModeDigitIsFatal ==
    (Decoded /\ OpOfWord \in TableOpcodes
             /\ \E k \in ReadParams(OpOfWord) :
                    Digit(opcode_and_param_modes, k + 2) \in 3..9)
        => IsPanic(result)

\* C5: a word whose two lowest digits are not an opcode of the table makes
\* the decoder end in a fatal error, whatever the parameter slice.
C5_UnknownOpcodeIsFatal ==
    (Decoded /\ OpOfWord \notin TableOpcodes) => IsPanic(result)

C5_Witness ==
    /\ Decoded
    /\ opcode_and_param_modes = 1000
    /\ params = <<4, -1, 4>>
    /\ result = Panic("Invalid instruction")

\* the addresses (usize values) a decoded instruction carries
AddressesOf(instr) ==
    IF IsPanic(instr) \/ instr.tag \in {"None", "Halt"} THEN {}
    ELSE {OperandOf(instr, k).pos :
              k \in {j \in ReadParams(OpOfWord) :
                         OperandOf(instr, j).tag = "Position"}}
         \cup (IF instr.tag \in {"Add", "Multiply", "IsLessThan", "IsEquals",
                                 "Input"}
               THEN {instr.position} ELSE {})

\* C8 (as claimed): a negative word used as an address is fatal, and is not
\* reinterpreted as a large non-negative address by the cast to usize: no
\* decoded instruction carries an address of 2^63 or more.
C8_NegativeAddressNotReinterpreted ==
    Decoded => \A w \in AddressesOf(result) : w.hi = 0

\* C9: a word with m mod 100 = 99 decodes to Halt whatever its higher digits
\* and whatever the slice, the empty slice included (so no parameter is
\* read: reading one of an empty slice would panic).
C9_HaltIgnoresModeDigits ==
    (Decoded /\ OpOfWord = 99) => result = [tag |-> "Halt"]

C9_Witness ==
    /\ Decoded
    /\ opcode_and_param_modes = 3399
    /\ params = <<>>
    /\ result = [tag |-> "Halt"]

----------------------------------------------------------------------------
(* The machine: memory that grows on touch, the decode-execute cycle,      *)
(* push_input and run                                                      *)

\* bounds of the machine's specification
MaxPushes == 2

InputWords == {0, 7}

\* memory with every cell up to address a present, new cells zero
Touch(mem, a) ==
    IF a + 1 <= Len(mem) THEN mem
    ELSE mem \o [i \in 1..(a + 1 - Len(mem)) |-> 0]

\* the word a read of address a yields, the memory grown or not
Peek(mem, a) == IF a + 1 <= Len(mem) THEN mem[a + 1] ELSE 0

StoreAt(mem, a, v) == [Touch(mem, a) EXCEPT ![a + 1] = v]

NewMachine(prog, inputs) ==
    [memory |-> prog, instruction_pointer |-> 0, relative_base |-> 0,
     input_queue |-> inputs, output_log |-> <<>>, halted |-> FALSE]

NewConsoleMachine(prog) == NewMachine(prog, <<>>)

WriteMemory(m, address, value) ==
    [m EXCEPT !.memory = StoreAt(m.memory, address, value)]

ReadMemoryPosition(m, address) == Peek(m.memory, address)

PushInputTo(m, value) ==
    [m EXCEPT !.input_queue = Append(m.input_queue, value)]

\* the number of parameter words that follow an instruction word
ParamCount(word) ==
    LET op == word % 100
    IN  IF op \in {1, 2, 7, 8} THEN 3
        ELSE IF op \in {5, 6} THEN 2
        ELSE IF op \in {3, 4, 9} THEN 1
        ELSE 0

\* steps 1 and 2 of a cycle: the instruction word and its parameter words
\* are read, and the reads grow the memory
Fetched(m) ==
    LET word == Peek(m.memory, m.instruction_pointer)
    IN  [m EXCEPT !.memory =
            Touch(m.memory, m.instruction_pointer + ParamCount(word))]

WordAt(m) == Peek(m.memory, m.instruction_pointer)

ParamsAt(m) ==
    [k \in 1..ParamCount(WordAt(m)) |->
        Peek(m.memory, m.instruction_pointer + k)]

\* an address of 2^63 or more: the buffer cannot grow to hold it
UsableAddress(w) == w.hi = 0

\* step 4: a read operand resolved to [mem, val], or a panic
Resolve(m, operand) ==
    CASE operand.tag = "Immediate" ->
           [tag |-> "ok", mem |-> m.memory, val |-> operand.val]
      [] operand.tag = "Position" ->
           IF UsableAddress(operand.pos)
           THEN [tag |-> "ok", mem |-> Touch(m.memory, operand.pos.lo),
                 val |-> Peek(m.memory, operand.pos.lo)]
           ELSE Panic("capacity overflow")
      [] operand.tag = "Relative" ->
           LET a == m.relative_base + operand.val
           IN  IF a >= 0
               THEN [tag |-> "ok", mem |-> Touch(m.memory, a),
                     val |-> Peek(m.memory, a)]
               ELSE Panic("negative address")

Outcome(m, st, instr) == [machine |-> m, status |-> st, instr |-> instr]

Advance(m, n) ==
    [m EXCEPT !.instruction_pointer = m.instruction_pointer + n]

\* the word Add, Multiply, IsLessThan and IsEquals store
BinaryResult(name, x, y) ==
    CASE name = "Add" -> x + y
      [] name = "Multiply" -> x * y
      [] name = "IsLessThan" -> IF x < y THEN 1 ELSE 0
      [] name = "IsEquals" -> IF x = y THEN 1 ELSE 0

\* dst := the result, for Add, Multiply, IsLessThan, IsEquals
Binary(m, instr) ==
    LET x == Resolve(m, instr.x)
    IN  IF IsPanic(x) THEN Outcome(m, "Panic", instr)
        ELSE LET m1 == [m EXCEPT !.memory = x.mem]
                 y == Resolve(m1, instr.y)
             IN  IF IsPanic(y) \/ ~UsableAddress(instr.position)
                 THEN Outcome(m1, "Panic", instr)
                 ELSE Outcome(
                          Advance([m1 EXCEPT !.memory =
                              StoreAt(y.mem, instr.position.lo,
                                      BinaryResult(instr.tag, x.val, y.val))],
                              4),
                          "Continued", instr)

\* JumpIfTrue jumps on a test that is not zero, JumpIfFalse on zero
JumpTaken(name, test) ==
    IF name = "JumpIfTrue" THEN test /= 0 ELSE test = 0

\* pointer := target when the test passes; a negative target is fatal
JumpIf(m, instr) ==
    LET t == Resolve(m, instr.test_position)
    IN  IF IsPanic(t) THEN Outcome(m, "Panic", instr)
        ELSE LET m1 == [m EXCEPT !.memory = t.mem]
                 j == Resolve(m1, instr.jump_position)
             IN  IF IsPanic(j) THEN Outcome(m1, "Panic", instr)
                 ELSE LET m2 == [m1 EXCEPT !.memory = j.mem]
                      IN  IF ~JumpTaken(instr.tag, t.val) THEN
                              Outcome(Advance(m2, 3), "Continued", instr)
                          ELSE IF j.val < 0 THEN Outcome(m2, "Panic", instr)
                          ELSE Outcome(
                                   [m2 EXCEPT !.instruction_pointer = j.val],
                                   "Continued", instr)

\* step 5: the effect of a decoded instruction on a machine whose memory
\* holds the instruction
Execute(m, instr) ==
    CASE instr.tag \in {"Add", "Multiply", "IsLessThan", "IsEquals"} ->
           Binary(m, instr)
      [] instr.tag \in {"JumpIfTrue", "JumpIfFalse"} -> JumpIf(m, instr)
      [] instr.tag = "Input" ->
           IF m.input_queue = <<>> THEN Outcome(m, "AwaitingInput", instr)
           ELSE IF ~UsableAddress(instr.position)
           THEN Outcome(m, "Panic", instr)
           ELSE Outcome(
                    Advance([m EXCEPT
                        !.memory = StoreAt(m.memory, instr.position.lo,
                                           Head(m.input_queue)),
                        !.input_queue = Tail(m.input_queue)], 2),
                    "Continued", instr)
      [] instr.tag = "Output" ->
           LET v == Resolve(m, instr.value)
           IN  IF IsPanic(v) THEN Outcome(m, "Panic", instr)
               ELSE Outcome(
                        Advance([m EXCEPT
                            !.memory = v.mem,
                            !.output_log = Append(m.output_log, v.val)], 2),
                        "Continued", instr)
      [] instr.tag = "SetRelativeBase" ->
           LET v == Resolve(m, instr.offset)
           IN  IF IsPanic(v) THEN Outcome(m, "Panic", instr)
               ELSE Outcome(
                        Advance([m EXCEPT
                            !.memory = v.mem,
                            !.relative_base = m.relative_base + v.val], 2),
                        "Continued", instr)
      [] instr.tag = "Halt" ->
           Outcome(Advance([m EXCEPT !.halted = TRUE], 1), "Halted", instr)

\* step(): one decode-execute cycle; a halted machine is left as it is
StepOf(m) ==
    IF m.halted THEN Outcome(m, "Halted", [tag |-> "None"])
    ELSE LET instr == IntcodeInstructionNew(WordAt(m), ParamsAt(m))
         IN  IF IsPanic(instr) THEN Outcome(Fetched(m), "Panic", instr)
             ELSE Execute(Fetched(m), instr)

\* run(): step() until it returns Halted or AwaitingInput (or panics);
\* the fuel bounds the cycles the model follows, and a run that needs more
\* ends "Continued"
MaxCycles == 120

RECURSIVE RunOf(_, _)
RunOf(m, fuel) ==
    LET o == StepOf(m)
    IN  IF o.status /= "Continued" \/ fuel = 0 THEN o
        ELSE RunOf(o.machine, fuel - 1)

Quine ==
    <<109, 1, 204, -1, 1001, 100, 1, 100, 1008, 100, 16, 101, 1006, 101, 0, 99>>

\* the programs the machine is started on
MachinePrograms ==
    { <<99>>,
      <<3>>,
      <<3, 0, 4, 0, 99>>,
      <<1, 0, 0, 0, 99>>,
      <<1, 9, 10, 3, 2, 3, 11, 0, 99, 30, 40, 50>>,
      <<109, 3, 203, 1, 204, 1, 99>>,
      <<109, 2, 21101, 2, 3, 1, 99>>,
      <<3, 9, 1005, 9, 0, 104, 1, 99, 0, 0>>,
      <<1107, 1, 2, 9, 1108, 2, 2, 10, 99>>,
      <<1, -1, 0, 0, 99>>,
      <<3, -1>>,
      Quine }

IdleDecoder ==
    /\ opcode_and_param_modes = 0
    /\ params = <<>>
    /\ result = NoResult

InitMachine ==
    /\ pc = "machine"
    /\ IdleDecoder
    /\ IdleSearch
    /\ machine \in {NewConsoleMachine(p) : p \in MachinePrograms}
    /\ status = "None"
    /\ lastOp = "none"
    /\ lastInstr = [tag |-> "None"]
    /\ prev = [machine |-> machine, status |-> status]
    /\ pushes = 0

\* a panic aborts the process: nothing is called on the machine after it
Alive == pc = "machine" /\ status /= "Panic"

Step ==
    /\ Alive
    /\ LET o == StepOf(machine)
       IN  /\ machine' = o.machine
           /\ status' = o.status
           /\ lastInstr' = o.instr
    /\ lastOp' = "step"
    /\ prev' = [machine |-> machine, status |-> status]
    /\ UNCHANGED <<pc, decodeVars, searchVars, pushes>>

Run ==
    /\ Alive
    /\ LET o == RunOf(machine, MaxCycles)
       IN  /\ o.status /= "Continued"
           /\ machine' = o.machine
           /\ status' = o.status
    /\ lastInstr' = [tag |-> "None"]
    /\ lastOp' = "run"
    /\ prev' = [machine |-> machine, status |-> status]
    /\ UNCHANGED <<pc, decodeVars, searchVars, pushes>>

PushInput ==
    /\ Alive
    /\ pushes < MaxPushes
    /\ \E v \in InputWords : machine' = PushInputTo(machine, v)
    /\ pushes' = pushes + 1
    /\ lastOp' = "push_input"
    /\ prev' = [machine |-> machine, status |-> status]
    /\ UNCHANGED <<pc, decodeVars, searchVars, status, lastInstr>>

NextMachine == Step \/ Run \/ PushInput

SpecMachine == InitMachine /\ [][NextMachine]_vars

----------------------------------------------------------------------------
(* The machine's contract                                                  *)

Before == prev.machine

Stepped == pc = "machine" /\ lastOp = "step"

\* the last step() was called with the pointer on a word of opcode op
SteppedOn(op) == Stepped /\ ~Before.halted /\ WordAt(Before) % 100 = op

\* the raw word of parameter k (0-indexed) of the instruction stepped on
RawParam(k) == Peek(Before.memory, Before.instruction_pointer + k + 1)

\* every address reads the same word in both memories
SameContents(mem1, mem2) ==
    \A a \in 0..(Len(mem1) + Len(mem2)) : Peek(mem1, a) = Peek(mem2, a)

\* C2 (as claimed): the destination a write instruction is decoded with is
\* the raw parameter under mode digit 0 and relative_base + the raw
\* parameter under mode digit 2 (stated here for a raw parameter that is
\* not negative, where the cast to usize changes nothing).
C2_WriteTargetFollowsItsMode ==
    (Stepped /\ ~IsPanic(lastInstr)
             /\ lastInstr.tag \in {"Add", "Multiply", "IsLessThan",
                                   "IsEquals", "Input"}) =>
        \A k \in WriteParams(WordAt(Before) % 100) :
            LET d == Digit(WordAt(Before), k + 2)
            IN  RawParam(k) >= 0 =>
                    /\ d = 0 => UsizeIs(lastInstr.position, RawParam(k))
                    /\ d = 2 => UsizeIs(lastInstr.position,
                                        Before.relative_base + RawParam(k))

\* a step() on an Input instruction with an empty queue returns
\* AwaitingInput and leaves the pointer, the relative base, the queue and
\* the output log as they were
SuspendsInPlace ==
    (SteppedOn(3) /\ Before.input_queue = <<>>) =>
        /\ status = "AwaitingInput"
        /\ lastInstr.tag = "Input"
        /\ machine.instruction_pointer = Before.instruction_pointer
        /\ machine.relative_base = Before.relative_base
        /\ machine.output_log = Before.output_log
        /\ machine.input_queue = <<>>
        /\ ~machine.halted

\* while the machine awaits input its pointer stays on the Input instruction
StaysOnInput ==
    (pc = "machine" /\ status = "AwaitingInput") =>
        /\ WordAt(machine) % 100 = 3
        /\ ~machine.halted
        /\ lastOp \in {"step", "run", "push_input"}

\* the step() after the suspension and a push_input executes the Input
\* instruction: the first queued word is stored at the instruction's
\* destination (a usable address) and the pointer advances by 2
ResumesOnInput ==
    (Stepped /\ prev.status = "AwaitingInput" /\ Before.input_queue /= <<>>
             /\ RawParam(0) >= 0) =>
        /\ WordAt(Before) % 100 = 3
        /\ status = "Continued"
        /\ lastInstr.tag = "Input"
        /\ UsizeIs(lastInstr.position, RawParam(0))
        /\ machine.memory =
               StoreAt(Fetched(Before).memory, RawParam(0),
                       Head(Before.input_queue))
        /\ machine.input_queue = Tail(Before.input_queue)
        /\ machine.instruction_pointer = Before.instruction_pointer + 2
        /\ machine.relative_base = Before.relative_base
        /\ machine.output_log = Before.output_log

\* a run resumed after the suspension ends as the run of the machine the
\* word was queued on beforehand
ResumedRunIsTheSame ==
    (Stepped /\ status = "AwaitingInput") =>
        \A v \in InputWords :
            LET late == RunOf(PushInputTo(machine, v), MaxCycles)
                early == RunOf(PushInputTo(Before, v), MaxCycles)
            IN  /\ late.status = early.status
                /\ late.machine.memory = early.machine.memory
                /\ late.machine.output_log = early.machine.output_log

C7_HaltedIsFinal ==
    /\ SteppedOn(99) => (machine.halted /\ status = "Halted")
    /\ (pc = "machine" /\ status = "Halted") => machine.halted
    /\ (pc = "machine" /\ Before.halted) =>
           /\ machine.halted
           /\ lastOp \in {"step", "run"} =>
                  /\ status = "Halted"
                  /\ machine = Before
                  /\ lastInstr = [tag |-> "None"]
           /\ lastOp = "push_input" =>
                  [machine EXCEPT !.input_queue = Before.input_queue] = Before

\* the quine has halted with its output written, and a further step() left
\* the machine as it was
C7_Witness ==
    /\ Stepped
    /\ Before.halted
    /\ machine = Before
    /\ machine.output_log = Quine
    /\ status = "Halted"

----------------------------------------------------------------------------
(* Day 2: the search for the noun and the verb                             *)

\* if result == 19690720
Target == 19690720

\* for noun in 0..=99
NounMax == 99

\* for verb in 0..=99
VerbMax == 99

\* format!("{}", n) of a non-negative n: its decimal digits as text
RECURSIVE DecimalText(_)
DecimalText(n) ==
    IF n < 10 THEN <<n>> ELSE Append(DecimalText(n \div 10), n % 10)

Answer_Swapped(n, v) == 100 * v + n

\* 100 * noun + verb
Answer(n, v) == 100 * n + v

\* run_test: a machine of its own, built from the program, poked at
\* addresses 1 and 2 and run; the word at address 0, or the run's panic
RunTest(prog, n, v) ==
    LET fresh == NewConsoleMachine(prog)
        poked == WriteMemory(WriteMemory(fresh, 1, n), 2, v)
        o == RunOf(poked, MaxCycles)
    IN  IF o.status = "Panic" THEN Panic("run")
        ELSE [tag |-> "i64", val |-> ReadMemoryPosition(o.machine, 0)]

\* the programs searched
Day2Programs ==
    { <<1, 0, 0, 0, 99, 19690720, 0>>,
      <<2, 0, 0, 0, 99, 17581, 0, 1120>>,
      <<1, 0, 0, 3, 1, 3, 9, 0, 99, 19690717>>,
      <<1, 0, 0, 0, 99>>,
      <<1, 0, 0, 4, 99>> }

InitSearch ==
    /\ pc = "search"
    /\ IdleDecoder
    /\ IdleMachine
    /\ program \in Day2Programs
    /\ noun = 0
    /\ verb = 0
    /\ returned = [tag |-> "None"]
    /\ trials = 0

\* one pass of the inner loop's body
Trial ==
    /\ pc = "search"
    /\ noun <= NounMax
    /\ trials' = trials + 1
    /\ LET r == RunTest(program, noun, verb)
       IN  IF IsPanic(r) THEN
               /\ pc' = "panicked"
               /\ UNCHANGED <<noun, verb, returned>>
           ELSE IF r.val = Target THEN
               /\ pc' = "returned"
               /\ returned' = [tag |-> "Ok",
                               text |-> DecimalText(Answer(noun, verb))]
               /\ UNCHANGED <<noun, verb>>
           ELSE
               /\ IF verb < VerbMax
                  THEN verb' = verb + 1 /\ noun' = noun
                  ELSE verb' = 0 /\ noun' = noun + 1
               /\ UNCHANGED <<pc, returned>>
    /\ UNCHANGED <<program, decodeVars, machineVars>>

\* bail!("Couldn't find inputs with output 19690720")
Bail ==
    /\ pc = "search"
    /\ noun > NounMax
    /\ pc' = "returned"
    /\ returned' = [tag |-> "Err"]
    /\ UNCHANGED <<program, noun, verb, trials, decodeVars, machineVars>>

NextSearch == Trial \/ Bail

SpecSearch == InitSearch /\ [][NextSearch]_vars

----------------------------------------------------------------------------
(* The search's contract                                                   *)

\* the trial of the pair leaves the target at address 0
Hits(n, v) ==
    LET r == RunTest(program, n, v) IN ~IsPanic(r) /\ r.val = Target

\* the pairs tried before (n, v) in noun-major order
PairsBefore(n, v) ==
    {q \in (0..NounMax) \X (0..VerbMax) :
        q[1] < n \/ (q[1] = n /\ q[2] < v)}

\* C10: the pairs are tried in noun-major order, each on a machine of its
\* own built from the program; run() returns the text of 100 * noun + verb
\* for the first pair whose trial leaves 19690720 at address 0, having tried
\* no pair after it, and returns an error when all 10000 pairs were tried
\* and none did.
C10_FirstHitInNounMajorOrder ==
    /\ (pc = "search" /\ noun <= NounMax) =>
           /\ verb \in 0..VerbMax
           /\ trials = (VerbMax + 1) * noun + verb
    /\ (pc = "returned" /\ returned.tag = "Ok") =>
           /\ returned.text = DecimalText(100 * noun + verb)
           /\ noun \in 0..NounMax /\ verb \in 0..VerbMax
           /\ Hits(noun, verb)
           /\ \A q \in PairsBefore(noun, verb) : ~Hits(q[1], q[2])
           /\ trials = (VerbMax + 1) * noun + verb + 1
    /\ (pc = "returned" /\ returned.tag = "Err") =>
           /\ \A q \in (0..NounMax) \X (0..VerbMax) : ~Hits(q[1], q[2])
           /\ trials = (NounMax + 1) * (VerbMax + 1)
    /\ pc = "returned" => returned.tag \in {"Ok", "Err"}

\* the search returned "507": the pair (5, 7) is the first to multiply to
\* the target, and the later pair (7, 5), which does too, was not tried
C10_Witness ==
    /\ pc = "returned"
    /\ program = <<2, 0, 0, 0, 99, 17581, 0, 1120>>
    /\ returned = [tag |-> "Ok", text |-> <<5, 0, 7>>]
    /\ Hits(7, 5)
    /\ trials = 508

----------------------------------------------------------------------------
(* The three specifications as one                                         *)

Init == InitDecode \/ InitMachine \/ InitSearch

Next == NextDecode \/ NextMachine \/ NextSearch

Spec == Init /\ [][Next]_vars

====
